---- MODULE Spec2Model ----
(***************************************************************************)
(* State-machine model of src/src/main.cpp: an ESP8266 clock that keeps    *)
(* four settings in EEPROM, associates with WiFi, synchronises with an NTP *)
(* server and prints the time on a MAX7219 panel.                          *)
(*                                                                         *)
(* The handlers setup() and loop() are split at their two busy-wait loops  *)
(* (connect_to_wifi, update_NTP_time): every pass of such a loop is one    *)
(* step, pc says where the program is and ret who called the wait.         *)
(* What the collaborators answer (WiFi.status(), timeClient.update(), the  *)
(* clock reading, the DST pin, how long a delay really took) is an         *)
(* input of the step that asks.                                            *)
(***************************************************************************)
EXTENDS Integers, Sequences, FiniteSets, TLC

(***************************************************************************)
(* uint32_t.  TLC's integers stop at 2^31 - 1, so a 32-bit unsigned value  *)
(* is the pair <<high half, low half>> of its two 16-bit halves, and the   *)
(* arithmetic below is arithmetic modulo 2^32.                             *)
(***************************************************************************)
Half == 2^16

U32(n) == <<(n \div Half) % Half, n % Half>>

Zero32 == <<0, 0>>

Add32(a, b) ==
  LET lo == a[2] + b[2]
  IN  <<(a[1] + b[1] + (lo \div Half)) % Half, lo % Half>>

Sub32(a, b) ==
  LET borrow == IF a[2] < b[2] THEN 1 ELSE 0
  IN  <<(a[1] - b[1] - borrow + Half) % Half, (a[2] - b[2] + Half) % Half>>

\* (uint32_t) of a negative long: two's complement
Neg32(n) == Sub32(Zero32, U32(n))

Geq32(a, b) == a[1] > b[1] \/ (a[1] = b[1] /\ a[2] >= b[2])

Lt32(a, b) == ~Geq32(a, b)

\* value >> 8
Shr8(v) == <<v[1] \div 256, (v[2] \div 256) + (v[1] % 256) * 256>>

\* (uint8_t)value & 0x000000FF
Lsb(v) == v[2] % 256

\* bitwise and of two naturals
RECURSIVE BitAnd(_, _)
BitAnd(x, y) ==
  IF x = 0 \/ y = 0 THEN 0
  ELSE (x % 2) * (y % 2) + 2 * BitAnd(x \div 2, y \div 2)

And32(a, b) == <<BitAnd(a[1], b[1]), BitAnd(a[2], b[2])>>

\* the 32-bit value whose little-endian bytes are b0 b1 b2 b3
FromBytes(b0, b1, b2, b3) == <<b3 * 256 + b2, b1 * 256 + b0>>

(***************************************************************************)
(* Program constants                                                       *)
(***************************************************************************)
_12H_MODE == 1
_24H_MODE == 0
EEPROM_HAS_BEEN_INITIALIZED == 1
ASCII_NUMERAL_0_OFFSET == 48
DEFAULT_BRIGHTNESS == 4
DEFAULT_DISPLAY_MODE == 0
DEFAULT_12H_24H_MODE == _12H_MODE
DEFAULT_TIME_OFFSET == Neg32(60 * 60 * 7)
WIFI_TIMEOUT == 10000
WIFI_RECONNECT_CHECK_INTERVAL == 1000 * 60 * 5
NTP_CONNECTION_TIMEOUT == 1000 * 2
EEPROM_BYTE_OFFSET == 4
NUM_EEPROM_BYTES == EEPROM_BYTE_OFFSET * (4 + 1)
EEPROM_INIT_ADDRESS == 0 * EEPROM_BYTE_OFFSET
EEPROM_BRIGHTNESS_ADDRESS == 1 * EEPROM_BYTE_OFFSET
EEPROM_DISPLAY_MODE_ADDRESS == 2 * EEPROM_BYTE_OFFSET
EEPROM_12H_24H_ADDRESS == 3 * EEPROM_BYTE_OFFSET
EEPROM_TIME_OFFSET_ADDRESS == 4 * EEPROM_BYTE_OFFSET
FORCE_EEPROM_INIT == FALSE
\* delay(500) in connect_to_wifi
WIFI_POLL_DELAY == 500
MAX_STRING_BUFFER_LENGTH == 128
\* the number of 8x8 modules of the display the program is written for
NUM_MAX == 4
\* the values a uint8_t holds
Byte == 256

(***************************************************************************)
(* Bounds of the model and the inputs the environment may give             *)
(***************************************************************************)
\* restarts after the first boot
MaxBoots == 1
\* loop() iterations followed after each boot
MaxLoops == 2
\* a busy-wait is followed for this many ms, the longest stay the code's
\* timeouts allow and one poll more
MaxWait == WIFI_TIMEOUT + 2 * WIFI_POLL_DELAY

\* millis() when setup() starts: the counter is free-running and wraps every
\* 2^32 ms, the program is observed from the start or shortly before a wrap
BootMillis == {Zero32, Neg32(WIFI_TIMEOUT + 1)}
\* ms that WiFi.begin() takes, between the reading of millis() and the first
\* test of the loop in connect_to_wifi
BeginDelays == {1}
\* ms after WiFi.begin() at which the access point may accept the station
AssociationTimes == {0, 3 * WIFI_POLL_DELAY}
\* what a failed timeClient.update() and forceUpdate() take
NtpDelays == {1000}
\* ms from one observed call of loop() to the next
LoopDelays == {1000, WIFI_RECONNECT_CHECK_INTERVAL - 1000}
\* the clock readings tried by the full model
HourSamples == {23}
MinuteSamples == {5}
SecondSamples == {0, 30}
DstSamples == {FALSE}
\* the clock readings tried by the display model
ClockHours == 0 .. 23
ClockMinutes == {5, 6}
ClockSeconds == {0, 30}

\* the bytes of a store holding marker, brightness, seconds-visible flag,
\* 12/24 h flag and offset as five little-endian 32-bit fields
StoreBytes(fields, a) ==
  LET f == fields[(a \div EEPROM_BYTE_OFFSET) + 1]
      k == a % EEPROM_BYTE_OFFSET
  IN  IF k = 0 THEN f[2] % 256
      ELSE IF k = 1 THEN f[2] \div 256
      ELSE IF k = 2 THEN f[1] % 256
      ELSE f[1] \div 256

StoreImage(fields) == [a \in 0 .. NUM_EEPROM_BYTES - 1 |-> StoreBytes(fields, a)]

\* what the EEPROM may hold at the first boot: zeroes, erased flash (all
\* ones), the settings of the round-trip example saved earlier, and a set
\* marker followed by fields of all ones
BootStores ==
  { [a \in 0 .. NUM_EEPROM_BYTES - 1 |-> 0],
    [a \in 0 .. NUM_EEPROM_BYTES - 1 |-> 255],
    StoreImage(<<U32(1), U32(9), U32(1), U32(0), Neg32(21600)>>),
    StoreImage(<<U32(1), Neg32(1), Neg32(1), Neg32(1), Neg32(1)>>) }

VARIABLES
  eeprom,                       \* EEPROM: address -> byte, survives a restart
  display_brightness,           \* the four settings, uint32_t
  display_mode,
  display_time_in_24_h,
  current_time_offset,
  valid_NTP_time_received,
  last_seconds,
  DST_is_active,
  last_wifi_connection_attempt, \* uint32_t
  print_string_buffer,          \* the characters before the terminating 0
  timeClient,                   \* the time the NTP client holds
  refreshes,                    \* refreshAll() calls of the last step
  shown,                        \* what the last step composed: error, time, none
  millis,                       \* the millisecond counter, uint32_t
  WiFi_status,                  \* the last answer of WiFi.status(): connected?
  wifi_connection_timeout,      \* local of connect_to_wifi
  ntp_connection_start_time,    \* local of update_NTP_time
  wifi_returned, ntp_returned,  \* results of the calls of this iteration
  init_marker,                  \* EEPROM.read(EEPROM_INIT_ADDRESS) at boot
  boot_path,                    \* branch setup() took: init or restore
  waited,                       \* ms spent in the running busy-wait
  boots, loops,
  pc, ret,
  scr,                          \* the frame buffer: index -> column byte
  composed_on_clear,            \* was scr clear when the last composition began
  font,                         \* the width byte of each character's record
  cur_character_offset,         \* locals of the call under test: character_offset
  cur_x_offset,                 \* and x_offset
  writes,                       \* the stores into scr of the call under test
  panel_intensity,              \* the last CMD_INTENSITY sent to the panel
  ntp_offset                    \* the offset the NTP client applies

settings == <<display_brightness, display_mode, display_time_in_24_h,
              current_time_offset>>

vars == <<eeprom, display_brightness, display_mode, display_time_in_24_h,
          current_time_offset, valid_NTP_time_received, last_seconds,
          DST_is_active, last_wifi_connection_attempt, print_string_buffer,
          timeClient, refreshes, shown, millis, WiFi_status,
          wifi_connection_timeout, ntp_connection_start_time, wifi_returned,
          ntp_returned, init_marker, boot_path, waited, boots, loops, pc, ret,
          scr, composed_on_clear, panel_intensity, ntp_offset, font,
          cur_character_offset, cur_x_offset, writes>>

frame == <<scr, composed_on_clear>>
applied == <<panel_intensity, ntp_offset>>
call == <<font, cur_character_offset, cur_x_offset, writes>>

(***************************************************************************)
(* EEPROM                                                                  *)
(***************************************************************************)
\* write_32_bit_EEPROM_value: the loop body for i, then the rest of the loop
RECURSIVE write_loop(_, _, _, _)
write_loop(e, address, value, i) ==
  IF i < 3
  THEN write_loop([e EXCEPT ![address + i] = Lsb(value)], address, Shr8(value), i + 1)
  ELSE e

write_32_bit_EEPROM_value(e, address, value) == write_loop(e, address, value, 0)

\* read_loop putting the bytes together with | in place of &
RECURSIVE read_loop_or(_, _, _, _)
read_loop_or(e, address, combined_value, i) ==
  IF i < 3
  THEN read_loop_or(e, address,
                    Add32(combined_value, U32(e[address + i] * 2^(i * 8))), i + 1)
  ELSE combined_value

\* read_32_bit_EEPROM_value: EEPROM.read(address+i) << i*8 is an int below
\* 2^24, and-ed into combined_value
RECURSIVE read_loop(_, _, _, _)
read_loop(e, address, combined_value, i) ==
  IF i < 3
  THEN read_loop(e, address,
                 And32(combined_value, U32(e[address + i] * 2^(i * 8))), i + 1)
  ELSE combined_value

read_32_bit_EEPROM_value(e, address) == read_loop(e, address, Zero32, 0)

init_EEPROM(e) ==
  LET e1 == write_32_bit_EEPROM_value(e, EEPROM_INIT_ADDRESS, U32(1))
      e2 == write_32_bit_EEPROM_value(e1, EEPROM_BRIGHTNESS_ADDRESS, U32(DEFAULT_BRIGHTNESS))
      e3 == write_32_bit_EEPROM_value(e2, EEPROM_DISPLAY_MODE_ADDRESS, U32(DEFAULT_DISPLAY_MODE))
      e4 == write_32_bit_EEPROM_value(e3, EEPROM_12H_24H_ADDRESS, U32(DEFAULT_12H_24H_MODE))
  IN  write_32_bit_EEPROM_value(e4, EEPROM_TIME_OFFSET_ADDRESS, DEFAULT_TIME_OFFSET)

restore_from_EEPROM ==
  /\ display_brightness' = read_32_bit_EEPROM_value(eeprom, EEPROM_BRIGHTNESS_ADDRESS)
  /\ display_mode' = read_32_bit_EEPROM_value(eeprom, EEPROM_DISPLAY_MODE_ADDRESS)
  /\ display_time_in_24_h' = read_32_bit_EEPROM_value(eeprom, EEPROM_12H_24H_ADDRESS)
  /\ current_time_offset' = read_32_bit_EEPROM_value(eeprom, EEPROM_TIME_OFFSET_ADDRESS)

\* setup()'s test for an EEPROM that needs its defaults
NeedsInit(marker) == marker # EEPROM_HAS_BEEN_INITIALIZED \/ FORCE_EEPROM_INIT

(***************************************************************************)
(* print_time_from_NTP                                                     *)
(***************************************************************************)
\* uint8_t hours after the DST switch is applied
HoursWithDST(hours, dst) ==
  IF dst
  THEN LET h1 == (hours + 1) % 256
       IN  IF h1 > 24 THEN 0 ELSE h1
  ELSE hours

\* HoursFor12H with the comparison off by one: noon is reduced too
HoursFor12H_noon(hours, in_24_h) ==
  IF in_24_h = Zero32
  THEN IF hours >= 12 THEN hours - 12
       ELSE IF hours = 0 THEN 12
       ELSE hours
  ELSE hours

\* uint8_t hours after the correction to 12 h display values
HoursFor12H(hours, in_24_h) ==
  IF in_24_h = Zero32
  THEN IF hours > 12 THEN hours - 12
       ELSE IF hours = 0 THEN 12
       ELSE hours
  ELSE hours

\* TimeString with the tens digit of the hour always written
TimeString_zero(hours, minutes, seconds) ==
  << (hours \div 10) + ASCII_NUMERAL_0_OFFSET,
     (hours % 10) + ASCII_NUMERAL_0_OFFSET,
     58,
     (minutes \div 10) + ASCII_NUMERAL_0_OFFSET,
     (minutes % 10) + ASCII_NUMERAL_0_OFFSET,
     58,
     (seconds \div 10) + ASCII_NUMERAL_0_OFFSET,
     (seconds % 10) + ASCII_NUMERAL_0_OFFSET >>

\* the characters print_time_from_NTP stores in print_string_buffer
TimeString(hours, minutes, seconds) ==
  << IF hours >= 10 THEN (hours \div 10) + ASCII_NUMERAL_0_OFFSET ELSE 32,
     (hours % 10) + ASCII_NUMERAL_0_OFFSET,
     58,
     (minutes \div 10) + ASCII_NUMERAL_0_OFFSET,
     (minutes % 10) + ASCII_NUMERAL_0_OFFSET,
     58,
     (seconds \div 10) + ASCII_NUMERAL_0_OFFSET,
     (seconds % 10) + ASCII_NUMERAL_0_OFFSET >>

\* SecondsChanged without the comparison: every call redraws
SecondsChanged_always(last, seconds) == TRUE

\* the redraw test of print_time_from_NTP
SecondsChanged(last, seconds) == last # seconds

\* scr[] of the display driver: NUM_MAX * 8 columns and 8 more
ScrSize == NUM_MAX * 8 + 8

\* a column with no pixel lit
Dark == 0

\* the byte of column font_char_column of character, told from every other
\* byte of the font and from Dark
FontByte(character, font_char_column) == character * Byte + font_char_column

\* clr(): every column dark
ClearScr == [i \in 0 .. ScrSize - 1 |-> Dark]

\* clr with the call left out: the buffer keeps its columns
clr_skipped(buffer) == buffer

\* the call clr() of print_time_from_NTP: what buffer holds after it
clr(buffer) == ClearScr

\* "ConnErr"
ConnErr == <<67, 111, 110, 110, 69, 114, 114>>

\* the characters the program draws
FontChars == {32, 58} \cup (48 .. 57) \cup {67, 69, 110, 111, 114}

\* the width bytes of a proportional font whose colon and blank are 1 column
\* wide and whose digits and letters are 3
SampleFont == [character \in FontChars |-> IF character \in {32, 58} THEN 1 ELSE 3]

\* uint8_t offset = row_count - (x_offset + font_char_column + 1)
ColumnOffset(x_offset, font_char_column) ==
  (NUM_MAX * 8 - (x_offset + font_char_column + 1)) % Byte

\* OutsideBuffer letting the index ScrSize through
OutsideBuffer_above(offset) == offset > NUM_MAX * 8 + 8

\* the test that ends the columns of a character
OutsideBuffer(offset) == offset >= NUM_MAX * 8 + 8

\* the inner loop of render_font_char_to_buffer from font_char_column on:
\* the stores scr[offset] = byte it makes, in order, each as
\* <<offset, column of the string, byte>>
RECURSIVE render_columns(_, _, _, _)
render_columns(character, font_char_width, x_offset, font_char_column) ==
  IF font_char_column < font_char_width
  THEN LET offset == ColumnOffset(x_offset, font_char_column)
       IN  IF OutsideBuffer(offset)
           THEN <<>>
           ELSE << <<offset, x_offset + font_char_column,
                     FontByte(character, font_char_column)>> >>
                \o render_columns(character, font_char_width, x_offset,
                                  font_char_column + 1)
  ELSE <<>>

\* one pass of the outer loop: the stores for string[character_offset]
render_character(string, character_offset, x_offset, widths) ==
  render_columns(string[character_offset + 1],
                 widths[string[character_offset + 1]], x_offset, 0)

\* the outer loop of render_font_char_to_buffer from character_offset on,
\* x_offset += font_char_width + 1 after each character; widths are the
\* width bytes of the font
RECURSIVE render_characters(_, _, _, _)
render_characters(string, character_offset, x_offset, widths) ==
  IF character_offset >= Len(string)
  THEN <<>>
  ELSE render_character(string, character_offset, x_offset, widths)
       \o render_characters(string, character_offset + 1,
                            x_offset + widths[string[character_offset + 1]] + 1,
                            widths)

\* buffer after the stores from the k-th on are made
RECURSIVE store_from(_, _, _)
store_from(buffer, stores, k) ==
  IF k > Len(stores)
  THEN buffer
  ELSE store_from([buffer EXCEPT ![stores[k][1]] = stores[k][3]], stores, k + 1)

\* buffer after the call: its stores, worked out once, made in order
render_font_char_to_buffer(string, x_offset, buffer, widths) ==
  CHOOSE drawn \in { store_from(buffer, stores, 1) :
                       stores \in {render_characters(string, 0, x_offset, widths)} } :
    TRUE

\* what the panel shows when string is drawn on a dark buffer
FrameOf(string) == render_font_char_to_buffer(string, 0, ClearScr, font)

\* display_error_pattern(): the buffer is drawn over as it is
display_error_pattern ==
  /\ scr' = render_font_char_to_buffer(ConnErr, 0, scr, font)
  /\ composed_on_clear' = (scr = ClearScr)

print_time_from_NTP ==
  LET hours == HoursFor12H(HoursWithDST(timeClient.hours, DST_is_active),
                           display_time_in_24_h)
      minutes == timeClient.minutes
      seconds == timeClient.seconds
  IN  /\ last_seconds' = seconds
      /\ IF SecondsChanged(last_seconds, seconds)
         THEN /\ print_string_buffer' = TimeString(hours, minutes, seconds)
              /\ scr' = render_font_char_to_buffer(
                          TimeString(hours, minutes, seconds), 0, clr(scr), font)
              /\ composed_on_clear' = (clr(scr) = ClearScr)
              /\ refreshes' = 1
              /\ shown' = "time"
         ELSE /\ UNCHANGED <<print_string_buffer, frame>>
              /\ refreshes' = 0
              /\ shown' = "none"

\* ShowsTime with the test inverted
ShowsTime_inverted(valid) == ~valid

\* the test of display_time
ShowsTime(valid) == valid

display_time ==
  IF ShowsTime(valid_NTP_time_received)
  THEN print_time_from_NTP
  ELSE /\ display_error_pattern
       /\ refreshes' = 2
       /\ shown' = "error"
       /\ UNCHANGED <<print_string_buffer, last_seconds>>

(***************************************************************************)
(* The waits                                                               *)
(***************************************************************************)
\* the timeout test of connect_to_wifi
WifiTimedOut(now, start) == Geq32(now, Add32(start, U32(WIFI_TIMEOUT)))

\* the timeout test of update_NTP_time
NtpTimedOut(now, start) == Geq32(now, Add32(U32(NTP_CONNECTION_TIMEOUT), start))

\* AttemptDue never true: no attempt after setup()
AttemptDue_never(now, last) == FALSE

\* the test of verify_time
AttemptDue(now, last) == Geq32(now, Add32(last, U32(WIFI_RECONNECT_CHECK_INTERVAL)))

\* where the caller of a wait goes on: setup() returns and loop() starts,
\* verify_time() returns and loop() calls display_time()
AfterWait == IF ret = "setup" THEN "loop_top" ELSE "display"

\* AfterFailedConnect going on into update_NTP_time all the same
AfterFailedConnect_sync == "ntp_wait"

\* where the caller goes on when connect_to_wifi returned false: the else
\* branch with update_NTP_time is skipped
AfterFailedConnect == AfterWait

\* ValidAfterTimeout clearing the flag when the server does not answer
ValidAfterTimeout_cleared(valid) == FALSE

\* valid_NTP_time_received when update_NTP_time gives up
ValidAfterTimeout(valid) == valid

Init ==
  /\ eeprom \in BootStores
  /\ display_brightness = U32(DEFAULT_BRIGHTNESS)
  /\ display_mode = U32(DEFAULT_DISPLAY_MODE)
  /\ display_time_in_24_h = U32(DEFAULT_12H_24H_MODE)
  /\ current_time_offset = DEFAULT_TIME_OFFSET
  /\ valid_NTP_time_received = FALSE
  /\ last_seconds = 0
  /\ DST_is_active = FALSE
  /\ last_wifi_connection_attempt = Zero32
  /\ print_string_buffer = <<>>
  /\ timeClient = [hours |-> 0, minutes |-> 0, seconds |-> 0]
  /\ refreshes = 0
  /\ shown = "none"
  /\ millis \in BootMillis
  /\ WiFi_status = FALSE
  /\ wifi_connection_timeout = Zero32
  /\ ntp_connection_start_time = Zero32
  /\ wifi_returned = "none"
  /\ ntp_returned = "none"
  /\ init_marker = 0
  /\ boot_path = "none"
  /\ waited = 0
  /\ boots = 0
  /\ loops = 0
  /\ pc = "boot"
  /\ ret = "setup"
  /\ scr = ClearScr
  /\ composed_on_clear = TRUE
  /\ panel_intensity = 0
  /\ ntp_offset = DEFAULT_TIME_OFFSET
  /\ font = SampleFont
  /\ cur_character_offset = 0
  /\ cur_x_offset = 0
  /\ writes = <<>>

\* setup() up to the first test of the loop in connect_to_wifi; WiFi.begin()
\* takes b ms
Setup(b) ==
  /\ pc = "boot"
  /\ init_marker' = eeprom[EEPROM_INIT_ADDRESS]
  /\ IF NeedsInit(eeprom[EEPROM_INIT_ADDRESS])
     THEN /\ eeprom' = init_EEPROM(eeprom)
          /\ boot_path' = "init"
          /\ UNCHANGED settings
     ELSE /\ restore_from_EEPROM
          /\ boot_path' = "restore"
          /\ UNCHANGED eeprom
  /\ panel_intensity' = DEFAULT_BRIGHTNESS
  /\ display_error_pattern
  /\ refreshes' = 1
  /\ shown' = "error"
  /\ wifi_connection_timeout' = millis
  /\ last_wifi_connection_attempt' = millis
  /\ millis' = Add32(millis, U32(b))
  /\ waited' = b
  /\ pc' = "wifi_wait"
  /\ ret' = "setup"
  /\ UNCHANGED <<valid_NTP_time_received, last_seconds, DST_is_active,
                 print_string_buffer, timeClient, WiFi_status,
                 ntp_connection_start_time, wifi_returned, ntp_returned,
                 boots, loops, ntp_offset, call>>

\* one pass of the loop of connect_to_wifi: WiFi.status() answers connected,
\* which it may do at the sampled times only; on true the caller goes on into
\* update_NTP_time
WifiWait(connected) ==
  /\ pc = "wifi_wait"
  /\ waited <= MaxWait
  /\ connected => \E b \in BeginDelays : waited - b \in AssociationTimes
  /\ WiFi_status' = connected
  /\ refreshes' = 0
  /\ shown' = "none"
  /\ IF connected
     THEN /\ wifi_returned' = "true"
          /\ ntp_connection_start_time' = millis
          /\ waited' = 0
          /\ pc' = "ntp_wait"
          /\ UNCHANGED millis
     ELSE /\ millis' = Add32(millis, U32(WIFI_POLL_DELAY))
          /\ UNCHANGED ntp_connection_start_time
          /\ IF WifiTimedOut(millis', wifi_connection_timeout)
             THEN /\ wifi_returned' = "false"
                  /\ waited' = 0
                  /\ pc' = AfterFailedConnect
             ELSE /\ waited' = waited + WIFI_POLL_DELAY
                  /\ UNCHANGED <<wifi_returned, pc>>
  /\ UNCHANGED <<eeprom, settings, valid_NTP_time_received, last_seconds,
                 DST_is_active, last_wifi_connection_attempt,
                 print_string_buffer, timeClient, wifi_connection_timeout,
                 ntp_returned, init_marker, boot_path, boots, loops, ret,
                 frame, applied, call>>

\* one pass of the loop of update_NTP_time: timeClient.update() answers ok,
\* a failed update and the forceUpdate() after it take d ms
NtpWait(ok, d) ==
  /\ pc = "ntp_wait"
  /\ waited <= MaxWait
  /\ refreshes' = 0
  /\ shown' = "none"
  /\ IF ok
     THEN /\ valid_NTP_time_received' = TRUE
          /\ ntp_returned' = "true"
          /\ waited' = 0
          /\ pc' = AfterWait
          /\ UNCHANGED millis
     ELSE /\ millis' = Add32(millis, U32(d))
          /\ IF NtpTimedOut(millis', ntp_connection_start_time)
             THEN /\ valid_NTP_time_received' = ValidAfterTimeout(valid_NTP_time_received)
                  /\ ntp_returned' = "false"
                  /\ waited' = 0
                  /\ pc' = AfterWait
             ELSE /\ waited' = waited + d
                  /\ UNCHANGED <<valid_NTP_time_received, ntp_returned, pc>>
  /\ UNCHANGED <<eeprom, settings, last_seconds, DST_is_active,
                 last_wifi_connection_attempt, print_string_buffer, timeClient,
                 WiFi_status, wifi_connection_timeout,
                 ntp_connection_start_time, wifi_returned, init_marker,
                 boot_path, boots, loops, ret, frame, applied, call>>

\* loop() from its start through verify_time(): after timeClient.update()
\* the client holds h:m:s, the DST pin reads dst and, if an attempt is due,
\* WiFi.status() answers connected and WiFi.begin() takes b ms
LoopBody(h, m, s, connected, dst, b) ==
  /\ pc = "loop_top"
  /\ timeClient' = [hours |-> h, minutes |-> m, seconds |-> s]
  /\ DST_is_active' = dst
  /\ refreshes' = 0
  /\ shown' = "none"
  /\ wifi_returned' = "none"
  /\ ntp_returned' = "none"
  /\ ret' = "loop"
  /\ IF AttemptDue(millis, last_wifi_connection_attempt)
     THEN /\ last_wifi_connection_attempt' = millis
          /\ WiFi_status' = connected
          /\ IF ~connected
             THEN /\ wifi_connection_timeout' = millis
                  /\ millis' = Add32(millis, U32(b))
                  /\ waited' = b
                  /\ pc' = "wifi_wait"
                  /\ UNCHANGED ntp_connection_start_time
             ELSE /\ ntp_connection_start_time' = millis
                  /\ waited' = 0
                  /\ pc' = "ntp_wait"
                  /\ UNCHANGED <<wifi_connection_timeout, millis>>
     ELSE /\ pc' = "display"
          /\ waited' = 0
          /\ UNCHANGED <<last_wifi_connection_attempt, WiFi_status, millis,
                         wifi_connection_timeout, ntp_connection_start_time>>
  /\ UNCHANGED <<eeprom, settings, valid_NTP_time_received, last_seconds,
                 print_string_buffer, init_marker, boot_path, boots, frame,
                 applied, call>>

\* an iteration of loop() that the model follows
LoopTop(h, m, s, connected, dst, b) ==
  /\ loops < MaxLoops
  /\ loops' = loops + 1
  /\ LoopBody(h, m, s, connected, dst, b)

\* display_time(), and the d ms until loop() is seen again
Display(d) ==
  /\ pc = "display"
  /\ display_time
  /\ millis' = Add32(millis, U32(d))
  /\ pc' = "loop_top"
  /\ UNCHANGED <<eeprom, settings, valid_NTP_time_received, DST_is_active,
                 last_wifi_connection_attempt, WiFi_status, timeClient,
                 wifi_connection_timeout, ntp_connection_start_time,
                 wifi_returned, ntp_returned, init_marker, boot_path, waited,
                 boots, loops, ret, applied, call>>

\* power is cycled: the globals get their initial values again, the EEPROM
\* keeps its bytes
Reboot(m) ==
  /\ pc = "loop_top"
  /\ boots < MaxBoots
  /\ boots' = boots + 1
  /\ display_brightness' = U32(DEFAULT_BRIGHTNESS)
  /\ display_mode' = U32(DEFAULT_DISPLAY_MODE)
  /\ display_time_in_24_h' = U32(DEFAULT_12H_24H_MODE)
  /\ current_time_offset' = DEFAULT_TIME_OFFSET
  /\ valid_NTP_time_received' = FALSE
  /\ last_seconds' = 0
  /\ DST_is_active' = FALSE
  /\ last_wifi_connection_attempt' = Zero32
  /\ print_string_buffer' = <<>>
  /\ timeClient' = [hours |-> 0, minutes |-> 0, seconds |-> 0]
  /\ refreshes' = 0
  /\ shown' = "none"
  /\ millis' = m
  /\ WiFi_status' = FALSE
  /\ wifi_connection_timeout' = Zero32
  /\ ntp_connection_start_time' = Zero32
  /\ wifi_returned' = "none"
  /\ ntp_returned' = "none"
  /\ init_marker' = 0
  /\ boot_path' = "none"
  /\ waited' = 0
  /\ loops' = 0
  /\ pc' = "boot"
  /\ ret' = "setup"
  /\ scr' = ClearScr
  /\ composed_on_clear' = TRUE
  /\ panel_intensity' = 0
  /\ UNCHANGED <<eeprom, ntp_offset, call>>

Next ==
  \/ \E b \in BeginDelays : Setup(b)
  \/ \E connected \in BOOLEAN : WifiWait(connected)
  \/ \E ok \in BOOLEAN, d \in NtpDelays : NtpWait(ok, d)
  \/ \E h \in HourSamples, m \in MinuteSamples, s \in SecondSamples,
        connected \in BOOLEAN, dst \in DstSamples, b \in BeginDelays :
       LoopTop(h, m, s, connected, dst, b)
  \/ \E d \in LoopDelays : Display(d)
  \/ \E m \in BootMillis : Reboot(m)

Spec == Init /\ [][Next]_vars

(***************************************************************************)
(* The display model: one boot of the same program where the access point *)
(* accepts at once, followed over every hour the clock can read.           *)
(***************************************************************************)
\* a store that takes the defaults and one that is restored
ClockStores ==
  { [a \in 0 .. NUM_EEPROM_BYTES - 1 |-> 0],
    StoreImage(<<U32(1), U32(9), U32(1), U32(0), Neg32(21600)>>) }

InitClock == Init /\ millis = Zero32 /\ eeprom \in ClockStores

NextClock ==
  \/ \E b \in BeginDelays : Setup(b)
  \/ WifiWait(TRUE)
  \/ \E ok \in BOOLEAN, d \in NtpDelays : NtpWait(ok, d)
  \/ \E h \in ClockHours, m \in ClockMinutes, s \in ClockSeconds,
        dst \in BOOLEAN, b \in BeginDelays :
       LoopTop(h, m, s, TRUE, dst, b)
  \/ Display(1000)

SpecClock == InitClock /\ [][NextClock]_vars

(***************************************************************************)
(* The recovery model: one boot at millis() = 0 in which the attempts of   *)
(* setup() may fail and, from loop() on, every association and every NTP   *)
(* update succeeds.  loop() is called again and again, each iteration      *)
(* takes time and reads other seconds than the one before; the run is      *)
(* followed for LiveHorizon ms.                                            *)
(***************************************************************************)
LiveHorizon == 3 * WIFI_RECONNECT_CHECK_INTERVAL
InHorizon == Lt32(millis, U32(LiveHorizon))
\* ms from one observed call of loop() to the next
LiveDelays == {WIFI_RECONNECT_CHECK_INTERVAL \div 3,
               WIFI_RECONNECT_CHECK_INTERVAL - 1000}

InitLive == Init /\ millis = Zero32 /\ eeprom \in ClockStores

SetupLive(b) == InHorizon /\ Setup(b)

\* connect_to_wifi, which may fail in setup() only
WifiWaitLive(connected) ==
  /\ InHorizon
  /\ ret = "loop" => connected
  /\ WifiWait(connected)

\* update_NTP_time, which may fail in setup() only
NtpWaitLive(ok, d) ==
  /\ InHorizon
  /\ ret = "loop" => ok
  /\ NtpWait(ok, d)

\* an iteration of loop(), any number of them, the clock having moved on
LoopLive(h, m, s, connected, dst, b) ==
  /\ InHorizon
  /\ s # timeClient.seconds
  /\ LoopBody(h, m, s, connected, dst, b)
  /\ UNCHANGED loops

DisplayLive(d) == InHorizon /\ Display(d)

NextLive ==
  \/ \E b \in BeginDelays : SetupLive(b)
  \/ \E connected \in BOOLEAN : WifiWaitLive(connected)
  \/ \E ok \in BOOLEAN, d \in NtpDelays : NtpWaitLive(ok, d)
  \/ \E h \in HourSamples, m \in MinuteSamples, s \in SecondSamples,
        connected \in BOOLEAN, dst \in DstSamples, b \in BeginDelays :
       LoopLive(h, m, s, connected, dst, b)
  \/ \E d \in LiveDelays : DisplayLive(d)

SpecLive == InitLive /\ [][NextLive]_vars /\ WF_vars(NextLive)

(***************************************************************************)
(* The rendering model: render_font_char_to_buffer called once on a dark   *)
(* buffer, followed character by character, for strings up to the length   *)
(* print_string_buffer can hold, fonts of several widths and several       *)
(* x_offset.                                                               *)
(***************************************************************************)
\* the characters of the strings drawn
RenderChars == {67, 69}
\* the width bytes a font may give them
GlyphWidths == {1, 5, 8}
RenderFonts == [RenderChars -> GlyphWidths]
\* the lengths tried, up to the room before the final 0
RenderLengths == {0, 1, 8, 43, MAX_STRING_BUFFER_LENGTH - 1}
\* the strings: two characters in turn
RenderStrings ==
  { [i \in 1 .. n |-> IF i % 2 = 1 THEN first ELSE second] :
      n \in RenderLengths, first \in RenderChars, second \in RenderChars }
XOffsets == {0, 3, 250}

InitRender ==
  /\ eeprom = [a \in 0 .. NUM_EEPROM_BYTES - 1 |-> 0]
  /\ display_brightness = U32(DEFAULT_BRIGHTNESS)
  /\ display_mode = U32(DEFAULT_DISPLAY_MODE)
  /\ display_time_in_24_h = U32(DEFAULT_12H_24H_MODE)
  /\ current_time_offset = DEFAULT_TIME_OFFSET
  /\ valid_NTP_time_received = FALSE
  /\ last_seconds = 0
  /\ DST_is_active = FALSE
  /\ last_wifi_connection_attempt = Zero32
  /\ print_string_buffer \in RenderStrings
  /\ timeClient = [hours |-> 0, minutes |-> 0, seconds |-> 0]
  /\ refreshes = 0
  /\ shown = "none"
  /\ millis = Zero32
  /\ WiFi_status = FALSE
  /\ wifi_connection_timeout = Zero32
  /\ ntp_connection_start_time = Zero32
  /\ wifi_returned = "none"
  /\ ntp_returned = "none"
  /\ init_marker = 0
  /\ boot_path = "none"
  /\ waited = 0
  /\ boots = 0
  /\ loops = 0
  /\ pc = "render"
  /\ ret = "setup"
  /\ scr = ClearScr
  /\ composed_on_clear = TRUE
  /\ panel_intensity = 0
  /\ ntp_offset = DEFAULT_TIME_OFFSET
  /\ font \in RenderFonts
  /\ cur_character_offset = 0
  /\ cur_x_offset \in XOffsets
  /\ writes = <<>>

\* what a step of the call leaves alone
RenderUnchanged ==
  UNCHANGED <<eeprom, settings, valid_NTP_time_received, last_seconds,
              DST_is_active, last_wifi_connection_attempt, print_string_buffer,
              timeClient, refreshes, shown, millis, WiFi_status,
              wifi_connection_timeout, ntp_connection_start_time,
              wifi_returned, ntp_returned, init_marker, boot_path, waited,
              boots, loops, ret, composed_on_clear, applied, font>>

\* one pass of the outer loop of
\* render_font_char_to_buffer(print_string_buffer, x_offset, scr)
RenderCharacter ==
  /\ pc = "render"
  /\ cur_character_offset < Len(print_string_buffer)
  /\ LET stores == render_character(print_string_buffer, cur_character_offset,
                                    cur_x_offset, font)
     IN  /\ scr' = store_from(scr, stores, 1)
         /\ writes' = writes \o stores
  /\ cur_x_offset' = cur_x_offset
                     + font[print_string_buffer[cur_character_offset + 1]] + 1
  /\ cur_character_offset' = cur_character_offset + 1
  /\ UNCHANGED pc
  /\ RenderUnchanged

\* the final 0 is read and the call returns
RenderReturn ==
  /\ pc = "render"
  /\ cur_character_offset >= Len(print_string_buffer)
  /\ pc' = "rendered"
  /\ UNCHANGED <<scr, writes, cur_x_offset, cur_character_offset>>
  /\ RenderUnchanged

NextRender == RenderCharacter \/ RenderReturn

SpecRender == InitRender /\ [][NextRender]_vars

(***************************************************************************)
(* Properties                                                              *)
(***************************************************************************)
\* display_time() has just run and print_time_from_NTP wrote the buffer from
\* timeClient, DST_is_active and the settings of this state
JustPrinted == pc = "loop_top" /\ shown = "time"

\* the hour and the minutes that print_string_buffer reads
BufferHours ==
  (IF print_string_buffer[1] = 32 THEN 0
   ELSE print_string_buffer[1] - ASCII_NUMERAL_0_OFFSET) * 10
  + (print_string_buffer[2] - ASCII_NUMERAL_0_OFFSET)

BufferMinutes ==
  (print_string_buffer[4] - ASCII_NUMERAL_0_OFFSET) * 10
  + (print_string_buffer[5] - ASCII_NUMERAL_0_OFFSET)

\* the buffer ends in a ":SS" segment
HasSecondsSegment == Len(print_string_buffer) = 8 /\ print_string_buffer[6] = 58

\* the 12-hour value of hour h
TwelveHour(h) == IF h = 0 THEN 12 ELSE IF h <= 12 THEN h ELSE h - 12

\* C1: in 12-hour mode with DST not asserted, the hour that
\* print_time_from_NTP formats for the raw hour h is in 1..12: 12 for h = 0,
\* h for h in 1..12, h - 12 for h in 13..23.
C1_TwelveHourConversion ==
  (JustPrinted /\ display_time_in_24_h = Zero32 /\ ~DST_is_active)
    => /\ BufferHours \in 1 .. 12
       /\ BufferHours = TwelveHour(timeClient.hours)

C1_Witness ==
  /\ JustPrinted /\ display_time_in_24_h = Zero32 /\ ~DST_is_active
  /\ timeClient.hours = 13
  /\ BufferHours = 1

\* C2: with the DST indicator asserted the hour before the 12/24 h
\* conversion is (h + 1) mod 24 for the raw hour h, so what is displayed is
\* that hour in 24-hour mode (never 24) and its 12-hour value otherwise.
C2_DSTWraps ==
  (JustPrinted /\ DST_is_active)
    => IF display_time_in_24_h = Zero32
       THEN BufferHours = TwelveHour((timeClient.hours + 1) % 24)
       ELSE /\ BufferHours = (timeClient.hours + 1) % 24
            /\ BufferHours \in 0 .. 23

\* the 32-bit little-endian field stored at address a
Field(e, a) == FromBytes(e[a], e[a + 1], e[a + 2], e[a + 3])

\* C3: a 32-bit value written to a settings address is the value stored and
\* the value read back: after a boot that wrote the defaults the store's
\* fields hold them, and after a boot that restored, the settings in memory
\* are the fields of the store (9, true, false, -21600 for such a store).
C3_SettingsRoundTrip ==
  /\ boot_path = "init" =>
       /\ read_32_bit_EEPROM_value(eeprom, EEPROM_BRIGHTNESS_ADDRESS)
            = U32(DEFAULT_BRIGHTNESS)
       /\ read_32_bit_EEPROM_value(eeprom, EEPROM_TIME_OFFSET_ADDRESS)
            = DEFAULT_TIME_OFFSET
       /\ Field(eeprom, EEPROM_BRIGHTNESS_ADDRESS) = U32(DEFAULT_BRIGHTNESS)
       /\ Field(eeprom, EEPROM_DISPLAY_MODE_ADDRESS) = U32(DEFAULT_DISPLAY_MODE)
       /\ Field(eeprom, EEPROM_12H_24H_ADDRESS) = U32(DEFAULT_12H_24H_MODE)
       /\ Field(eeprom, EEPROM_TIME_OFFSET_ADDRESS) = DEFAULT_TIME_OFFSET
  /\ boot_path = "restore" =>
       /\ display_brightness = Field(eeprom, EEPROM_BRIGHTNESS_ADDRESS)
       /\ display_mode = Field(eeprom, EEPROM_DISPLAY_MODE_ADDRESS)
       /\ display_time_in_24_h = Field(eeprom, EEPROM_12H_24H_ADDRESS)
       /\ current_time_offset = Field(eeprom, EEPROM_TIME_OFFSET_ADDRESS)

\* C4: setup() rewrites the store with the defaults exactly when the marker
\* it read is 0, any other marker takes the restore path, and after the boot
\* the marker is not 0.
C4_FirstBootDetection ==
  boot_path # "none"
    => /\ (boot_path = "init") <=> (init_marker = 0)
       /\ eeprom[EEPROM_INIT_ADDRESS] # 0

\* the longest pass of a wait
MaxNtpDelay == CHOOSE d \in NtpDelays : \A e \in NtpDelays : e <= d

\* C5: a wait that never succeeds is over within its timeout and one poll:
\* connect_to_wifi is left at most WIFI_TIMEOUT + 500 ms after it started,
\* update_NTP_time at most NTP_CONNECTION_TIMEOUT and one pass after it
\* started, whatever millis() was at the start.
C5_BoundedWait ==
  /\ pc = "wifi_wait" => waited <= WIFI_TIMEOUT + WIFI_POLL_DELAY
  /\ pc = "ntp_wait" => waited <= NTP_CONNECTION_TIMEOUT + MaxNtpDelay

\* C6: verify_time called less than WIFI_RECONNECT_CHECK_INTERVAL ticks
\* (32-bit unsigned) after last_wifi_connection_attempt does nothing: no
\* association attempt, no resync, last_wifi_connection_attempt unchanged.
C6_RetryThrottle ==
  [][ ( /\ pc = "loop_top" /\ pc' # "boot"
        /\ Lt32(Sub32(millis, last_wifi_connection_attempt),
                U32(WIFI_RECONNECT_CHECK_INTERVAL)) )
      => ( /\ pc' = "display"
           /\ last_wifi_connection_attempt' = last_wifi_connection_attempt ) ]_vars

\* a step that is a call of display_time()
DisplayStep == pc = "display" /\ pc' = "loop_top"

C8_SecondsIffVisible ==
  JustPrinted => (HasSecondsSegment <=> display_mode # Zero32)

\* C9: display_time renders the error indicator exactly while no sync has
\* succeeded: valid_NTP_time_received is false at boot, becomes true only
\* when update_NTP_time succeeds and, short of a restart, stays true.
C9_ErrorOnlyBeforeFirstSync ==
  /\ [] ( /\ pc = "boot" => ~valid_NTP_time_received
          /\ (pc = "loop_top" /\ loops > 0)
               => ((shown = "error") <=> ~valid_NTP_time_received) )
  /\ [][ /\ (valid_NTP_time_received /\ pc' # "boot") => valid_NTP_time_received'
         /\ (~valid_NTP_time_received /\ valid_NTP_time_received')
              => (pc = "ntp_wait" /\ ntp_returned' = "true") ]_vars

C9_Witness ==
  /\ pc = "loop_top" /\ valid_NTP_time_received
  /\ wifi_returned = "false"
  /\ shown = "time"

\* C10: update_NTP_time that times out changes neither
\* valid_NTP_time_received nor last_seconds nor a setting, and the next
\* verify_time that is due with WiFi connected calls update_NTP_time again.
C10_TimeoutKeepsState ==
  /\ [][ (pc = "ntp_wait" /\ ntp_returned' # "true")
         => UNCHANGED <<valid_NTP_time_received, last_seconds, settings>> ]_vars
  /\ [][ ( /\ pc = "loop_top" /\ pc' # "boot" /\ pc' # "loop_top"
           /\ AttemptDue(millis, last_wifi_connection_attempt)
           /\ WiFi_status' )
         => pc' = "ntp_wait" ]_vars

C10_Witness ==
  /\ ntp_returned = "false"
  /\ valid_NTP_time_received
  /\ last_seconds # 0
  /\ ret = "loop"

\* "HH:MM:SS" with both digits of every field written
ZeroPadded(hours, minutes, seconds) ==
  << 48 + (hours \div 10), 48 + (hours % 10), 58,
     48 + (minutes \div 10), 48 + (minutes % 10), 58,
     48 + (seconds \div 10), 48 + (seconds % 10) >>

\* the same with a blank for a tens digit 0 of the hour
BlankPadded(hours, minutes, seconds) ==
  [ZeroPadded(hours, minutes, seconds) EXCEPT ![1] = IF hours < 10 THEN 32 ELSE @]

\* the 12-hour value of the wall-clock hour, one later while DST is asserted
WallHour12 ==
  TwelveHour((timeClient.hours + (IF DST_is_active THEN 1 ELSE 0)) % 24)

WriteIndex(k) == writes[k][1]
WriteColumn(k) == writes[k][2]

\* C12: when render_font_char_to_buffer draws a string on a dark buffer,
\* every column it stores is a column of the leading part that fits, stored
\* at its own place NUM_MAX*8 - 1 - column, and no store goes to an index an
\* earlier store of the call went to: only the tail is dropped and the 8-bit
\* offset never comes back into the buffer.
C12_GlyphTruncation ==
  /\ \A k \in 1 .. Len(writes) :
       WriteIndex(k) = NUM_MAX * 8 - 1 - WriteColumn(k)
  /\ \A j, k \in 1 .. Len(writes) :
       j < k => WriteIndex(j) # WriteIndex(k)

GMTOffsets ==
  { IF q >= 0 THEN U32(q * 900) ELSE Neg32((-q) * 900) : q \in -48 .. 56 }

CurrentTimeString ==
  TimeString(HoursFor12H(HoursWithDST(timeClient.hours, DST_is_active),
                         display_time_in_24_h),
             timeClient.minutes, timeClient.seconds)

\* C14: after every completed loop() iteration the frame on the panel is the
\* one of the current state: the string for the current hour, minute,
\* second, DST switch and settings if a valid time has been received, the
\* error indicator otherwise; so also after the first iteration that follows
\* the first sync, whatever the seconds are.
C14_FrameIsCurrent ==
  (pc = "loop_top" /\ loops > 0)
    => scr = IF valid_NTP_time_received
             THEN FrameOf(CurrentTimeString)
             ELSE FrameOf(ConnErr)

\* C15: update_NTP_time is entered only from connect_to_wifi returning true
\* or from a due verify_time that found WiFi connected, and it is entered in
\* both cases; a connect_to_wifi that returns false leaves
\* valid_NTP_time_received as it was and goes back to the caller (on to
\* loop() from setup(), on to display_time() from verify_time()), and WiFi
\* is connected whenever update_NTP_time runs.
C15_SyncOnlyWhenConnected ==
  /\ [][ /\ (pc # "ntp_wait" /\ pc' = "ntp_wait")
            => \/ pc = "wifi_wait" /\ wifi_returned' = "true" /\ WiFi_status'
               \/ /\ pc = "loop_top" /\ WiFi_status'
                  /\ AttemptDue(millis, last_wifi_connection_attempt)
         /\ (pc = "wifi_wait" /\ wifi_returned' = "true") => pc' = "ntp_wait"
         /\ (pc = "wifi_wait" /\ wifi_returned' = "false")
            => /\ valid_NTP_time_received' = valid_NTP_time_received
               /\ ntp_returned' = ntp_returned
               /\ pc' = IF ret = "setup" THEN "loop_top" ELSE "display" ]_vars
  /\ [] (pc = "ntp_wait" => WiFi_status)

C15_Witness ==
  /\ pc = "display" /\ ret = "loop"
  /\ wifi_returned = "false" /\ ntp_returned = "none"
  /\ ~WiFi_status
  /\ valid_NTP_time_received

\* C19: once setup() has loaded the settings and set up the panel and the
\* NTP client, what they were given is what the settings in memory hold: the
\* intensity sent to the panel is display_brightness and the offset of the
\* NTP client is current_time_offset, after a first boot and after a
\* restored boot.
C19_AppliedSettings ==
  boot_path # "none"
    => /\ U32(panel_intensity) = display_brightness
       /\ ntp_offset = current_time_offset

\* the store holds the compiled-in 12/24 h default: it was written by a first
\* boot and no setting was changed since
StoreHoldsDefaultMode ==
  Field(eeprom, EEPROM_12H_24H_ADDRESS) = U32(DEFAULT_12H_24H_MODE)

\* C20: with the compiled-in defaults the clock is in 12-hour mode: after a
\* first boot on an uninitialized store, and after every later boot from the
\* store that boot wrote, display_time_in_24_h is false and every time
\* print_time_from_NTP renders has its hour in 1..12.
C20_DefaultIsTwelveHour ==
  (boot_path # "none" /\ StoreHoldsDefaultMode)
    => /\ display_time_in_24_h = Zero32
       /\ JustPrinted => BufferHours \in 1 .. 12

\* the string whose frame the last step pushed
PushedString == IF shown = "error" THEN ConnErr ELSE print_string_buffer

C16_RecoveryLiveness ==
  /\ (pc = "loop_top" /\ ~valid_NTP_time_received)
       ~> (ret = "loop" /\ pc = "ntp_wait")
  /\ <>valid_NTP_time_received
  /\ <>(valid_NTP_time_received /\ shown = "time"
          /\ scr = FrameOf(CurrentTimeString))

C16_Witness ==
  /\ pc = "loop_top" /\ ret = "loop"
  /\ valid_NTP_time_received /\ shown = "time"
  /\ scr = FrameOf(CurrentTimeString)
  /\ wifi_returned = "true" /\ ntp_returned = "true"
  /\ Geq32(millis, U32(WIFI_RECONNECT_CHECK_INTERVAL))
  /\ last_wifi_connection_attempt # Zero32

====
